---- MODULE Spec2Model ----
(***************************************************************************)
(* The kodo storage driver (registry/storage/driver/kodo): the facade      *)
(* operations, the paginated lister, the resumable writer with its         *)
(* background upload task and the cache-refresh queue, as a state machine  *)
(* over an abstract bucket.                                                *)
(*                                                                         *)
(* Strings are sequences of one-character strings: "/a/b" is               *)
(* <<"/", "a", "/", "b">>, the empty string is <<>>.  Object contents are  *)
(* sequences of bytes drawn from Bytes.                                    *)
(***************************************************************************)
EXTENDS Integers, Sequences, FiniteSets, TLC

VARIABLES
    root,       \* d.params.RootDirectory after New (trailing "/" trimmed)
    univ,       \* the paths the callers of this run use
    store,      \* the bucket: key -> content, for the keys that exist
    w,          \* the write session (writer struct), or its absence
    pipe,       \* the io.Pipe between Write and the background task
    bg,         \* the session's background goroutine
    th,         \* the calling goroutine: its position inside a driver call
    ls,         \* locals of the running List / Delete / Stat loop
    refreshCh,  \* d.refreshCh, the buffered channel of keys
    ret,        \* the result of the last completed driver call
    hist        \* history: what the callers have done so far

vars == <<root, univ, store, w, pipe, bg, th, ls, refreshCh, ret, hist>>

(***************************************************************************)
(* Bounds of the model.                                                    *)
(***************************************************************************)
\* the longest object the model lets a session or PutContent produce
MaxSize == 2
\* the number of entries the backend returns on one list page
PageSize == 2
\* callers start a new driver call only while fewer keys than this wait
\* in the refresh queue
MaxPending == 1

(***************************************************************************)
(* Program constants.                                                      *)
(***************************************************************************)
listMax == 1000
refreshChCap == 100
listAttempts == 2
codeRetry == 599
codeNoKey == 612

(***************************************************************************)
(* String helpers (package strings).                                       *)
(***************************************************************************)
\* byte order of the characters used: '/' < 'a' < 'b' < 'q'
CharOrd(c) ==
    CASE c = "/" -> 47
      [] c = "a" -> 97
      [] c = "b" -> 98
      [] c = "q" -> 113

Min2(a, b) == IF a < b THEN a ELSE b

\* s[from..] (1-based), the empty string when from > Len(s)
Drop(s, n) == SubSeq(s, n + 1, Len(s))
Take(s, n) == SubSeq(s, 1, Min2(n, Len(s)))

HasPrefix(s, p) == Len(p) <= Len(s) /\ SubSeq(s, 1, Len(p)) = p
HasSuffix(s, p) == Len(p) <= Len(s) /\ SubSeq(s, Len(s) - Len(p) + 1, Len(s)) = p

RECURSIVE TrimLeft(_, _)
TrimLeft(s, c) ==
    IF s # <<>> /\ Head(s) = c THEN TrimLeft(Tail(s), c) ELSE s

RECURSIVE TrimRight(_, _)
TrimRight(s, c) ==
    IF s # <<>> /\ s[Len(s)] = c THEN TrimRight(SubSeq(s, 1, Len(s) - 1), c) ELSE s

TrimSuffix(s, p) ==
    IF HasSuffix(s, p) THEN SubSeq(s, 1, Len(s) - Len(p)) ELSE s

\* the least i >= 1 with s[i..] starting with p, 0 when there is none
RECURSIVE IndexFrom(_, _, _)
IndexFrom(s, p, i) ==
    IF i + Len(p) - 1 > Len(s) THEN 0
    ELSE IF SubSeq(s, i, i + Len(p) - 1) = p THEN i
    ELSE IndexFrom(s, p, i + 1)

\* strings.Replace(s, old, new, 1); an empty old matches at the start
ReplaceFirst(s, old, new) ==
    LET i == IndexFrom(s, old, 1) IN
    IF i = 0 THEN s
    ELSE SubSeq(s, 1, i - 1) \o new \o SubSeq(s, i + Len(old), Len(s))

\* byte-wise lexicographic order
RECURSIVE StrLess(_, _)
StrLess(s, t) ==
    IF t = <<>> THEN FALSE
    ELSE IF s = <<>> THEN TRUE
    ELSE IF Head(s) = Head(t) THEN StrLess(Tail(s), Tail(t))
    ELSE CharOrd(Head(s)) < CharOrd(Head(t))

\* a finite set of strings as the sequence in increasing order
RECURSIVE SortStrs(_)
SortStrs(S) ==
    IF S = {} THEN <<>>
    ELSE LET m == CHOOSE x \in S : \A y \in S \ {x} : StrLess(x, y)
         IN  <<m>> \o SortStrs(S \ {m})

(***************************************************************************)
(* Keys.                                                                   *)
(***************************************************************************)
\* params.RootDirectory as New keeps it
New(rootDirectory) == TrimRight(rootDirectory, "/")

getKey(path) == TrimLeft(root \o path, "/")

(***************************************************************************)
(* Errors.  Every error value is a record of the same shape.               *)
(***************************************************************************)
NoErr == [kind |-> "nil", code |-> 0, path |-> <<>>]
ErrEOF == [kind |-> "EOF", code |-> 0, path |-> <<>>]
\* *rpc.ErrorInfo with the provider's code
ErrRpc(c) == [kind |-> "rpc", code |-> c, path |-> <<>>]
\* storagedriver.PathNotFoundError{Path: p, DriverName: driverName}
PathNotFoundError(p) == [kind |-> "PathNotFound", code |-> 0, path |-> p]
\* fmt.Errorf("already closed") and its siblings
ErrAlready(what) == [kind |-> what, code |-> 0, path |-> <<>>]
\* any other failure of a backend call (a network error, another provider code)
ErrOther == [kind |-> "other", code |-> 0, path |-> <<>>]

\* isKeyNotExists that recognises no error
isKeyNotExistsNever(err) == FALSE

isKeyNotExists(err) == err.kind = "rpc" /\ err.code = codeNoKey

\* parseError: code 612 becomes PathNotFound of the path, any other error
\* and nil are returned as they are
parseError(path, err) ==
    IF err.kind = "rpc" /\ err.code = codeNoKey THEN PathNotFoundError(path) ELSE err

(***************************************************************************)
(* The bucket as the driver sees it through the provider's API.  A call    *)
(* either takes effect or fails with one of the provider's errors; the     *)
(* fault of a call is an input of the action that makes the call.          *)
(***************************************************************************)
EmptyStore == [k \in {} |-> <<>>]

Exists(st, key) == key \in DOMAIN st

StorePut(st, key, c) ==
    [k \in DOMAIN st \cup {key} |-> IF k = key THEN c ELSE st[k]]

StoreDel(st, key) == [k \in DOMAIN st \ {key} |-> st[k]]

\* the listing entry a key rolls up to: the key itself, or the common prefix
\* that ends at the first delimiter after the listed prefix
EntryName(key, prefix, delimiter) ==
    LET rest == Drop(key, Len(prefix))
        i    == IF delimiter = <<>> THEN 0 ELSE IndexFrom(rest, delimiter, 1)
    IN  IF i = 0 THEN key ELSE prefix \o Take(rest, i + Len(delimiter) - 1)

IsRolledUp(key, prefix, delimiter) == EntryName(key, prefix, delimiter) # key

\* the entries of a page that are keys, as the provider's items
PageItems(st, keys) ==
    [i \in 1..Len(keys) |-> [Key |-> keys[i], Fsize |-> Len(st[keys[i]])]]

\* a page of entries split into items and common prefixes; more: entries
\* remain after it, so that the provider returns a marker
PageOf(st, match, prefix, delimiter, page, more) ==
    [items    |-> PageItems(st, SelectSeq(page,
                     LAMBDA n : n \in match /\ ~IsRolledUp(n, prefix, delimiter))),
     prefixes |-> SelectSeq(page,
                     LAMBDA n : ~(n \in match /\ ~IsRolledUp(n, prefix, delimiter))),
     marker   |-> IF more THEN page[Len(page)] ELSE <<>>]

\* the first n of the entries after the marker
PageTake(st, match, prefix, delimiter, after, n) ==
    PageOf(st, match, prefix, delimiter, Take(after, n), Len(after) > n)

\* the entries of the keys in match, after the marker, in key order
PageAfter(st, match, prefix, delimiter, marker, limit) ==
    PageTake(st, match, prefix, delimiter,
             SortStrs({n \in {EntryName(k, prefix, delimiter) : k \in match} :
                         StrLess(marker, n)}),
             Min2(limit, PageSize))

\* one page of the provider's listing: the entries after the marker in key
\* order, at most limit of them (and at most PageSize), and the marker of the
\* next page, empty on the last page
ListPage(st, prefix, delimiter, marker, limit) ==
    PageAfter(st, {k \in DOMAIN st : HasPrefix(k, prefix)}, prefix, delimiter,
              marker, limit)

\* Bucket.List: the page, with io.EOF where the provider returns no marker;
\* on a fault, the error and nothing else
ListFaults == {"ok", "retry", "fail"}

ListOk(pg) ==
    [items |-> pg.items, prefixes |-> pg.prefixes, marker |-> pg.marker,
     err |-> IF pg.marker = <<>> THEN ErrEOF ELSE NoErr]

BucketList(st, prefix, delimiter, marker, limit, fault) ==
    CASE fault = "retry" ->
           [items |-> <<>>, prefixes |-> <<>>, marker |-> <<>>, err |-> ErrRpc(codeRetry)]
      [] fault = "fail" ->
           [items |-> <<>>, prefixes |-> <<>>, marker |-> <<>>, err |-> ErrOther]
      [] fault = "nokey" ->
           [items |-> <<>>, prefixes |-> <<>>, marker |-> <<>>, err |-> ErrRpc(codeNoKey)]
      [] OTHER -> ListOk(ListPage(st, prefix, delimiter, marker, limit))

\* the arguments and outcome of one Bucket.List call, as logged in ls.calls
CallRec(prefix, delimiter, marker, limit, r) ==
    [prefix |-> prefix, delimiter |-> delimiter, marker |-> marker,
     limit |-> limit, err |-> r.err, out |-> r.marker]

\* the loop of bucketlistWithRetry from attempt i on, r being the outcome of
\* attempt i: another attempt after code 599 while attempts remain
RECURSIVE listTry(_, _, _, _, _, _, _, _, _)
\* listTry that repeats the call after any error but io.EOF
listTryAnyError(st, prefix, delimiter, marker, limit, faults, i, calls, r) ==
    IF r.err # NoErr /\ r.err # ErrEOF /\ i + 1 < listAttempts
    THEN listTry(st, prefix, delimiter, marker, limit, faults, i + 1,
                 Append(calls, CallRec(prefix, delimiter, marker, limit, r)),
                 BucketList(st, prefix, delimiter, marker, limit, faults[i + 2]))
    ELSE [items |-> r.items, prefixes |-> r.prefixes, marker |-> r.marker,
          err |-> r.err,
          calls |-> Append(calls, CallRec(prefix, delimiter, marker, limit, r))]

listTry(st, prefix, delimiter, marker, limit, faults, i, calls, r) ==
    IF r.err.kind = "rpc" /\ r.err.code = codeRetry /\ i + 1 < listAttempts
    THEN listTry(st, prefix, delimiter, marker, limit, faults, i + 1,
                 Append(calls, CallRec(prefix, delimiter, marker, limit, r)),
                 BucketList(st, prefix, delimiter, marker, limit, faults[i + 2]))
    ELSE [items |-> r.items, prefixes |-> r.prefixes, marker |-> r.marker,
          err |-> r.err,
          calls |-> Append(calls, CallRec(prefix, delimiter, marker, limit, r))]

\* bucketlistWithRetry that gives up after the first attempt
bucketlistOnce(st, prefix, delimiter, marker, limit, faults) ==
    listTry(st, prefix, delimiter, marker, limit, faults, listAttempts - 1, <<>>,
            BucketList(st, prefix, delimiter, marker, limit, faults[1]))

\* bucketlistWithRetry; faults[i] is the fault of the i-th attempt
bucketlistWithRetry(st, prefix, delimiter, marker, limit, faults) ==
    listTry(st, prefix, delimiter, marker, limit, faults, 0, <<>>,
            BucketList(st, prefix, delimiter, marker, limit, faults[1]))

FaultSeqs == [1..listAttempts -> ListFaults]

\* the faults of the attempts where the provider may also answer code 612
FaultSeqsAll == [1..listAttempts -> ListFaults \cup {"nokey"}]

(***************************************************************************)
(* Results of driver calls.                                                *)
(***************************************************************************)
NoInfo == [Path |-> <<>>, IsDir |-> FALSE, Size |-> 0]

Ret(op, path, err) ==
    [op |-> op, path |-> path, err |-> err, n |-> 0, data |-> <<>>,
     names |-> <<>>, fi |-> NoInfo, calls |-> <<>>]

NoRet == Ret("none", <<>>, NoErr)

(***************************************************************************)
(* Stat, Reader, GetContent: they read the bucket and change nothing.      *)
(***************************************************************************)
\* StatInfo that takes the first listed item for the object itself
StatInfoNeverDir(path, item) ==
    [Path |-> path, IsDir |-> FALSE, Size |-> item.Fsize]

\* the FileInfo of driver.Stat for the first listed item
StatInfo(path, item) ==
    [Path |-> path, IsDir |-> getKey(path) # item.Key,
     Size |-> IF getKey(path) # item.Key THEN 0 ELSE item.Fsize]

\* driver.Stat after its list call has returned r
StatOf(path, r) ==
    IF r.err # NoErr /\ r.err # ErrEOF
    THEN [err |-> r.err, fi |-> NoInfo, calls |-> r.calls]
    ELSE IF Len(r.items) = 0
    THEN [err |-> PathNotFoundError(path), fi |-> NoInfo, calls |-> r.calls]
    ELSE [err |-> NoErr, fi |-> StatInfo(path, r.items[1]), calls |-> r.calls]

\* driver.Stat: the error and the FileInfo
StatResult(st, path, faults) ==
    StatOf(path, bucketlistWithRetry(st, getKey(path), <<>>, <<>>, 1, faults))

\* the provider's answer to the GET of Reader: a transport failure, or the
\* status and body for the key
GetFaults == {"ok", "fail"}

\* with "status" the provider answers with a status that reports a failure
\* other than 404, and the body tells the failure
GetFaultsAll == GetFaults \cup {"status"}
ErrBody == <<"e">>

\* ReaderResult whose range starts one byte late
ReaderResultLate(st, path, offset, fault) ==
    IF fault = "fail" THEN [err |-> ErrOther, data |-> <<>>]
    ELSE IF ~Exists(st, getKey(path))
    THEN [err |-> PathNotFoundError(path), data |-> <<>>]
    ELSE [err |-> NoErr, data |-> Drop(st[getKey(path)], offset + 1)]

\* driver.Reader: the error and the bytes the returned body yields
ReaderResult(st, path, offset, fault) ==
    LET key == getKey(path) IN
    IF fault = "fail" THEN [err |-> ErrOther, data |-> <<>>]
    ELSE IF fault = "status" THEN [err |-> NoErr, data |-> ErrBody]
    ELSE IF ~Exists(st, key) THEN [err |-> PathNotFoundError(path), data |-> <<>>]
    ELSE [err |-> NoErr, data |-> Drop(st[key], offset)]

\* driver.GetContent
GetContentResult(st, path, fault) == ReaderResult(st, path, 0, fault)

(***************************************************************************)
(* The write session: the writer struct, its pipe and background task.     *)
(***************************************************************************)
NoChan == [n |-> 0, closed |-> FALSE]

\* no session has been opened yet
NoWriter ==
    [live |-> FALSE, path |-> <<>>, size |-> 0, from |-> 0,
     closed |-> FALSE, committed |-> FALSE, cancelled |-> FALSE,
     rd |-> FALSE, wt |-> FALSE, err |-> NoErr, exitch |-> NoChan]

\* newFileWriter(d, ctx, path, size): rd and wt are nil, exitch is empty
newFileWriter(path, size) ==
    [NoWriter EXCEPT !.live = TRUE, !.path = path, !.size = size, !.from = size]

\* offered: a Write is blocked in the pipe with data still to be read
NoPipe == [offered |-> FALSE, data |-> <<>>, wclosed |-> FALSE, rclosed |-> FALSE]

\* pc: "none" not started, "put" inside PutParts, "refresh" inside
\* refreshCache, "done" exited (exitch sent);
\* buf: the bytes PutParts has read from the pipe so far
NoBg == [pc |-> "none", buf |-> <<>>]

\* pc: "idle" between calls, "write" blocked in w.wt.Write, "close" blocked
\* in <-w.exitch, "del_list" / "del_item" inside Delete, "list" inside List,
\* "enq" blocked in refreshCache; op: the driver call being executed
Idle == [pc |-> "idle", op |-> "none", path |-> <<>>, data |-> <<>>]

NoLs ==
    [marker |-> <<>>, items |-> <<>>, files |-> <<>>, dirs |-> <<>>,
     cnt |-> 0, calls |-> <<>>]

\* FlagError3 without the cancelled check: a Commit would be accepted after
\* a Cancel
FlagError3NoCancelled(ws) ==
    IF ws.closed THEN ErrAlready("already closed")
    ELSE IF ws.committed THEN ErrAlready("already committed")
    ELSE NoErr

\* FlagError3 without the committed check: a Write would be accepted after
\* a Commit
FlagError3NoCommitted(ws) ==
    IF ws.closed THEN ErrAlready("already closed")
    ELSE IF ws.cancelled THEN ErrAlready("already cancelled")
    ELSE NoErr

\* the flag checks at the head of Write and Commit
FlagError3(ws) ==
    IF ws.closed THEN ErrAlready("already closed")
    ELSE IF ws.committed THEN ErrAlready("already committed")
    ELSE IF ws.cancelled THEN ErrAlready("already cancelled")
    ELSE NoErr

\* the flag check at the head of Close
FlagErrorClose(ws) ==
    IF ws.closed THEN ErrAlready("already closed") ELSE NoErr

\* FlagErrorCancel without the committed check: a Cancel would be accepted
\* after a Commit
FlagErrorCancelNoCommitted(ws) ==
    IF ws.closed THEN ErrAlready("already closed") ELSE NoErr

\* the flag checks at the head of Cancel
FlagErrorCancel(ws) ==
    IF ws.closed THEN ErrAlready("already closed")
    ELSE IF ws.committed THEN ErrAlready("already committed")
    ELSE NoErr

FlagError(op, ws) ==
    CASE op = "Close"  -> FlagErrorClose(ws)
      [] op = "Cancel" -> FlagErrorCancel(ws)
      [] OTHER         -> FlagError3(ws)

\* BgParts without the copy part: the upload would replace the object by
\* the streamed bytes alone
BgPartsDirectOnly(ws) ==
    <<[type |-> "direct", Key |-> <<>>, From |-> 0, To |-> 0]>>

\* BgParts with the copy part whatever from is
BgPartsAlwaysCopy(ws) ==
    <<[type |-> "copy", Key |-> getKey(ws.path), From |-> 0, To |-> ws.from],
      [type |-> "direct", Key |-> <<>>, From |-> 0, To |-> 0]>>

\* the parts writer.background hands to PutParts: a copy part [0, from) of
\* the same key when from > 0, then the direct part reading the pipe
BgParts(ws) ==
    (IF ws.from > 0
     THEN <<[type |-> "copy", Key |-> getKey(ws.path), From |-> 0, To |-> ws.from]>>
     ELSE <<>>)
    \o <<[type |-> "direct", Key |-> <<>>, From |-> 0, To |-> 0]>>

\* addCopyFile accepts a copy part iff to = -1 or to > from
CopyPartValid(pt) == pt.To = -1 \/ pt.To > pt.From

\* the bytes a part contributes to the object: the range of the stored
\* object for a copy part, the streamed bytes for the direct part
PartBytes(st, pt, streamed) ==
    IF pt.type = "direct" THEN streamed
    ELSE SubSeq(st[pt.Key], pt.From + 1,
                IF pt.To = -1 THEN Len(st[pt.Key]) ELSE pt.To)

\* the provider accepts a copy part only of an existing object that has
\* the range
PartOk(st, pt) ==
    pt.type = "direct"
    \/ (/\ CopyPartValid(pt)
        /\ Exists(st, pt.Key)
        /\ (pt.To = -1 \/ pt.To <= Len(st[pt.Key])))

RECURSIVE ConcatParts(_, _, _)
ConcatParts(st, parts, streamed) ==
    IF parts = <<>> THEN <<>>
    ELSE PartBytes(st, Head(parts), streamed) \o ConcatParts(st, Tail(parts), streamed)

PartsOk(st, parts) == \A i \in 1..Len(parts) : PartOk(st, parts[i])

(***************************************************************************)
(* History kept for the properties; no action reads it.                    *)
(***************************************************************************)
NoHist ==
    [written |-> {},        \* paths a PutContent or a session has been given
     lastPut |-> EmptyStore, \* key -> content, where the last change of the key
                            \* was a successful PutContent
     append  |-> FALSE,     \* the session was opened with append
     statNF  |-> FALSE,     \* Writer was called with append and Stat
                            \* answered PathNotFound
     hasBase |-> FALSE,     \* the object existed when the session was opened
     expect  |-> <<>>,      \* its content then, if opened with append, followed
                            \* by the bytes of the session's successful Writes
     dirty   |-> FALSE,     \* another call changed the session's key since
     termOk  |-> FALSE,     \* a Close, Commit or Cancel has returned nil
     skipped |-> FALSE,     \* the running or last Delete has skipped a key that
                            \* was gone (code 612)
     enq     |-> FALSE,     \* the session's background task has enqueued the
                            \* session's key for refresh
     acc     |-> 0,         \* the bytes the session's Writes have returned as
                            \* written
     mark    |-> 0,         \* the place in the queue of the request that is
                            \* followed, 0 when none is
     tries   |-> 0,         \* the refresh calls made for the followed request
     failed  |-> FALSE,     \* the refresh call for the followed request failed
     started |-> 0]         \* the background tasks the session has started

\* the history after key was changed; put: by a successful PutContent of c;
\* own: by the session itself (its upload or its Cancel)
HistChange(h, key, put, c, own) ==
    [h EXCEPT
       !.lastPut = IF put THEN StorePut(h.lastPut, key, c) ELSE StoreDel(h.lastPut, key),
       !.dirty   = h.dirty \/ (w.live /\ ~own /\ key = getKey(w.path))]

HistRet(h, op, err) ==
    [h EXCEPT !.termOk = h.termOk \/ (op \in {"Close", "Commit", "Cancel"} /\ err = NoErr)]

(***************************************************************************)
(* The cache-refresh queue and its workers.                                *)
(***************************************************************************)
\* the paths of the specification of the queue
QueuePaths == {<<"/", "q">>}

\* callers start a new call only while the refresh queue is short; in the
\* specification of the queue they start one whatever its length
MaxQueued == IF univ = QueuePaths THEN refreshChCap + 1 ELSE MaxPending

CanStart == th.pc = "idle" /\ Len(refreshCh) < MaxQueued

RefreshFaults == {"ok", "fail"}

\* refreshWorker that receives the request sent last
refreshWorkerLast(fault) ==
    /\ refreshCh # <<>>
    /\ refreshCh' = SubSeq(refreshCh, 1, Len(refreshCh) - 1)
    /\ hist' = IF hist.mark # Len(refreshCh) THEN hist
               ELSE [hist EXCEPT !.mark = 0, !.tries = @ + 1,
                                 !.failed = (fault = "fail")]
    /\ UNCHANGED <<root, univ, store, w, pipe, bg, th, ls, ret>>

\* refreshWorker that sends the key back to the queue when its refresh call
\* has failed
refreshWorkerRequeue(fault) ==
    /\ refreshCh # <<>>
    /\ refreshCh' = IF fault = "fail" THEN Append(Tail(refreshCh), Head(refreshCh))
                    ELSE Tail(refreshCh)
    /\ hist' = IF hist.mark = 0 THEN hist
               ELSE IF hist.mark > 1 THEN [hist EXCEPT !.mark = @ - 1]
               ELSE [hist EXCEPT !.mark = IF fault = "fail" THEN Len(refreshCh) ELSE 0,
                                 !.tries = @ + 1,
                                 !.failed = (fault = "fail")]
    /\ UNCHANGED <<root, univ, store, w, pipe, bg, th, ls, ret>>

\* refreshWorker that hands the error of its refresh call to the caller
refreshWorkerReport(fault) ==
    /\ refreshCh # <<>>
    /\ refreshCh' = Tail(refreshCh)
    /\ hist' = hist
    /\ ret' = IF fault = "fail" THEN [ret EXCEPT !.err = ErrOther] ELSE ret
    /\ UNCHANGED <<root, univ, store, w, pipe, bg, th, ls>>

\* one round of refreshWorker: key := <-d.refreshCh, d.refreshCacheNow(key);
\* the error of the refresh call is logged and dropped
refreshWorker(fault) ==
    /\ refreshCh # <<>>
    /\ refreshCh' = Tail(refreshCh)
    /\ hist' = IF hist.mark = 0 THEN hist
               ELSE IF hist.mark > 1 THEN [hist EXCEPT !.mark = @ - 1]
               ELSE [hist EXCEPT !.mark = 0, !.tries = @ + 1,
                                 !.failed = (fault = "fail")]
    /\ UNCHANGED <<root, univ, store, w, pipe, bg, th, ls, ret>>

\* the i-th request of the queue is followed from now on
Track(i) ==
    /\ hist.mark = 0
    /\ i \in 1..Len(refreshCh)
    /\ hist' = [hist EXCEPT !.mark = i, !.tries = 0, !.failed = FALSE]
    /\ UNCHANGED <<root, univ, store, w, pipe, bg, th, ls, refreshCh, ret>>

(***************************************************************************)
(* PutContent, GetContent, Stat.                                           *)
(***************************************************************************)
PutFaults == {"ok", "fail"}

\* driver.PutContent: bucket.Put, then refreshCache of the key
PutContent(path, content, fault) ==
    /\ CanStart
    /\ hist' = IF fault = "ok"
               THEN [HistChange(hist, getKey(path), TRUE, content, FALSE)
                       EXCEPT !.written = @ \cup {path}]
               ELSE [hist EXCEPT !.written = @ \cup {path}]
    /\ IF fault = "fail"
       THEN /\ ret' = Ret("PutContent", path, ErrOther)
            /\ UNCHANGED <<store, refreshCh, th>>
       ELSE /\ store' = StorePut(store, getKey(path), content)
            /\ IF Len(refreshCh) < refreshChCap
               THEN /\ refreshCh' = Append(refreshCh, getKey(path))
                    /\ ret' = Ret("PutContent", path, NoErr)
                    /\ th' = th
               ELSE /\ th' = [pc |-> "enq", op |-> "PutContent", path |-> path,
                              data |-> getKey(path)]
                    /\ UNCHANGED <<refreshCh, ret>>
    /\ UNCHANGED <<root, univ, w, pipe, bg, ls>>

\* driver.GetContent
GetContent(path, fault) ==
    /\ th.pc = "idle"
    /\ LET r == GetContentResult(store, path, fault) IN
       ret' = [Ret("GetContent", path, r.err) EXCEPT !.data = r.data]
    /\ UNCHANGED <<root, univ, store, w, pipe, bg, th, ls, refreshCh, hist>>

\* what the caller of Stat gets
StatRet(path, r) == [Ret("Stat", path, r.err) EXCEPT !.fi = r.fi]

\* driver.Stat
Stat(path, faults) ==
    /\ th.pc = "idle"
    /\ ret' = StatRet(path, StatResult(store, path, faults))
    /\ UNCHANGED <<root, univ, store, w, pipe, bg, th, ls, refreshCh, hist>>

MoveFaults == {"ok", "fail"}

\* the error of bucket.Move: code 612 when the source key does not exist
MoveErr(st, sourcePath, fault) ==
    IF fault = "fail" THEN ErrOther
    ELSE IF ~Exists(st, getKey(sourcePath)) THEN ErrRpc(codeNoKey)
    ELSE NoErr

\* driver.Move: bucket.Move with force, its error through parseError
Move(sourcePath, destPath, fault) ==
    /\ CanStart
    /\ sourcePath # destPath
    /\ ret' = Ret("Move", sourcePath, parseError(sourcePath, MoveErr(store, sourcePath, fault)))
    /\ IF MoveErr(store, sourcePath, fault) = NoErr
       THEN /\ store' = StoreDel(StorePut(store, getKey(destPath), store[getKey(sourcePath)]),
                                 getKey(sourcePath))
            /\ hist' = HistChange(HistChange(hist, getKey(sourcePath), FALSE, <<>>, FALSE),
                                  getKey(destPath), FALSE, <<>>, FALSE)
       ELSE UNCHANGED <<store, hist>>
    /\ UNCHANGED <<root, univ, w, pipe, bg, th, ls, refreshCh>>

(***************************************************************************)
(* Writer: opening a session.                                              *)
(***************************************************************************)
\* WriterOf returning every error of Stat, PathNotFound included
WriterOfStrict(path, append, s) ==
    IF append /\ s.err # NoErr
    THEN [err |-> s.err, w |-> NoWriter]
    ELSE [err |-> NoErr,
          w   |-> newFileWriter(path, IF append THEN s.fi.Size ELSE 0)]

\* driver.Writer after its Stat has returned s: the error, and the session
\* it returns when there is none
WriterOf(path, append, s) ==
    IF append /\ s.err # NoErr /\ s.err # PathNotFoundError(path)
    THEN [err |-> s.err, w |-> NoWriter]
    ELSE [err |-> NoErr,
          w   |-> newFileWriter(path, IF append /\ s.err = NoErr THEN s.fi.Size ELSE 0)]

\* driver.Writer; Stat is called only with append
WriterResult(st, path, append, faults) ==
    WriterOf(path, append, StatResult(st, path, faults))

\* the session is handed to the caller
WriterOpen(path, append, s, r) ==
    /\ ret' = Ret("Writer", path, r.err)
    /\ IF r.err # NoErr
       THEN /\ UNCHANGED <<w, pipe, bg>>
            /\ hist' = [hist EXCEPT
                          !.statNF = append /\ s.err = PathNotFoundError(path)]
       ELSE /\ w' = r.w
            /\ pipe' = NoPipe
            /\ bg' = NoBg
            /\ hist' = [hist EXCEPT
                          !.written = @ \cup {path},
                          !.append  = append,
                          !.statNF  = append /\ s.err = PathNotFoundError(path),
                          !.hasBase = Exists(store, getKey(path)),
                          !.expect  = IF append /\ Exists(store, getKey(path))
                                      THEN store[getKey(path)] ELSE <<>>,
                          !.dirty   = FALSE,
                          !.termOk  = FALSE,
                          !.enq     = FALSE,
                          !.acc     = 0,
                          !.started = 0]

\* The model follows one session at a time: a new one is opened once the
\* background task of the previous one, if any, has exited.
Writer(path, append, faults) ==
    /\ CanStart
    /\ bg.pc \in {"none", "done"}
    /\ WriterOpen(path, append, StatResult(store, path, faults),
                  WriterResult(store, path, append, faults))
    /\ UNCHANGED <<root, univ, store, th, ls, refreshCh>>

(***************************************************************************)
(* Write.                                                                  *)
(***************************************************************************)
Chunks == {<<>>, <<"x">>, <<"y">>}

\* Write that does not look at w.err
WriteIgnoreErr(p) ==
    /\ th.pc = "idle"
    /\ w.live
    /\ w.size + Len(p) <= MaxSize
    /\ IF FlagError3(w) # NoErr
       THEN /\ ret' = Ret("Write", w.path, FlagError3(w))
            /\ UNCHANGED <<w, pipe, bg, th>>
       ELSE LET fresh == ~w.rd
                pp    == IF fresh THEN NoPipe ELSE pipe
            IN  IF pp.rclosed \/ pp.wclosed
                THEN /\ ret' = Ret("Write", w.path, ErrOther)
                     /\ UNCHANGED <<w, pipe, bg, th>>
                ELSE /\ w' = [w EXCEPT !.rd = TRUE, !.wt = TRUE]
                     /\ bg' = IF fresh THEN [NoBg EXCEPT !.pc = "put"] ELSE bg
                     /\ pipe' = [pp EXCEPT !.offered = TRUE, !.data = p]
                     /\ th' = [pc |-> "write", op |-> "Write", path |-> w.path,
                               data |-> p]
                     /\ ret' = ret
    /\ hist' = IF bg'.pc = "put" /\ bg.pc # "put"
               THEN [hist EXCEPT !.started = @ + 1] ELSE hist
    /\ UNCHANGED <<root, univ, store, ls, refreshCh>>

\* writer.Write up to the point where w.wt.Write blocks in the pipe
Write(p) ==
    /\ th.pc = "idle"
    /\ w.live
    /\ w.size + Len(p) <= MaxSize
    /\ IF FlagError3(w) # NoErr
       THEN /\ ret' = Ret("Write", w.path, FlagError3(w))
            /\ UNCHANGED <<w, pipe, bg, th>>
       ELSE IF w.err # NoErr
       THEN /\ ret' = Ret("Write", w.path, w.err)
            /\ UNCHANGED <<w, pipe, bg, th>>
       ELSE LET fresh == ~w.rd
                pp    == IF fresh THEN NoPipe ELSE pipe
            IN  IF pp.rclosed \/ pp.wclosed
                THEN /\ ret' = Ret("Write", w.path, ErrOther)
                     /\ UNCHANGED <<w, pipe, bg, th>>
                ELSE /\ w' = [w EXCEPT !.rd = TRUE, !.wt = TRUE]
                     /\ bg' = IF fresh THEN [NoBg EXCEPT !.pc = "put"] ELSE bg
                     /\ pipe' = [pp EXCEPT !.offered = TRUE, !.data = p]
                     /\ th' = [pc |-> "write", op |-> "Write", path |-> w.path,
                               data |-> p]
                     /\ ret' = ret
    /\ hist' = IF bg'.pc = "put" /\ bg.pc # "put"
               THEN [hist EXCEPT !.started = @ + 1] ELSE hist
    /\ UNCHANGED <<root, univ, store, ls, refreshCh>>

\* w.wt.Write returns once the reader has taken the bytes: w.size += n
WriteReturn ==
    /\ th.pc = "write"
    /\ ~pipe.offered
    /\ w' = [w EXCEPT !.size = @ + Len(th.data)]
    /\ ret' = [Ret("Write", w.path, NoErr) EXCEPT !.n = Len(th.data)]
    /\ hist' = [hist EXCEPT !.expect = @ \o th.data, !.acc = @ + Len(th.data)]
    /\ th' = Idle
    /\ UNCHANGED <<root, univ, store, pipe, bg, ls, refreshCh>>

(***************************************************************************)
(* The background task: writer.background.                                 *)
(***************************************************************************)
\* PutParts' copier reads what the blocked Write offers
BgRead ==
    /\ bg.pc = "put"
    /\ pipe.offered
    /\ bg' = [bg EXCEPT !.buf = @ \o pipe.data]
    /\ pipe' = [pipe EXCEPT !.offered = FALSE, !.data = <<>>]
    /\ UNCHANGED <<root, univ, store, w, th, ls, refreshCh, ret, hist>>

\* PutParts returns nil: the stream has ended and the provider has stored
\* the concatenation of the parts under the key
BgPutOk ==
    /\ bg.pc = "put"
    /\ pipe.wclosed /\ ~pipe.offered
    /\ PartsOk(store, BgParts(w))
    /\ store' = StorePut(store, getKey(w.path), ConcatParts(store, BgParts(w), bg.buf))
    /\ w' = [w EXCEPT !.err = NoErr]
    /\ bg' = [bg EXCEPT !.pc = "refresh", !.buf = <<>>]
    /\ hist' = HistChange(hist, getKey(w.path), FALSE, <<>>, TRUE)
    /\ UNCHANGED <<root, univ, pipe, th, ls, refreshCh, ret>>

\* PutParts returns an error; the deferred send on exitch follows
BgPutFail ==
    /\ bg.pc = "put"
    /\ w' = [w EXCEPT !.err = ErrOther, !.exitch = [@ EXCEPT !.n = 1]]
    /\ bg' = [bg EXCEPT !.pc = "done", !.buf = <<>>]
    /\ UNCHANGED <<root, univ, store, pipe, th, ls, refreshCh, ret, hist>>

\* BgRefresh that exits without enqueuing the key
BgRefreshSkip ==
    /\ bg.pc = "refresh"
    /\ w' = [w EXCEPT !.err = NoErr, !.exitch = [@ EXCEPT !.n = 1]]
    /\ bg' = [bg EXCEPT !.pc = "done"]
    /\ UNCHANGED <<root, univ, store, pipe, th, ls, refreshCh, ret, hist>>

\* w.err = w.refreshCache(key), which blocks while the queue is full; the
\* deferred send on exitch follows
BgRefresh ==
    /\ bg.pc = "refresh"
    /\ Len(refreshCh) < refreshChCap
    /\ refreshCh' = Append(refreshCh, getKey(w.path))
    /\ w' = [w EXCEPT !.err = NoErr, !.exitch = [@ EXCEPT !.n = 1]]
    /\ bg' = [bg EXCEPT !.pc = "done"]
    /\ hist' = [hist EXCEPT !.enq = TRUE]
    /\ UNCHANGED <<root, univ, store, pipe, th, ls, ret>>

(***************************************************************************)
(* Close, Commit, Cancel.                                                  *)
(***************************************************************************)
\* Size that returns the offset the session started at
SizeAtOpen(ws) == ws.from

\* writer.Size
Size(ws) == ws.size

\* a driver call returns err to its caller; the locals of its loop are gone
Return(op, path, err) ==
    /\ ret' = [Ret(op, path, err) EXCEPT !.calls = ls.calls]
    /\ th' = Idle
    /\ ls' = NoLs
    /\ hist' = HistRet(hist, op, err)

\* AfterClose that does not look at w.err: Close and Commit succeed after a
\* failed upload
AfterCloseIgnoreErr(op, ws) ==
    IF op = "Cancel"
    THEN /\ w' = [ws EXCEPT !.cancelled = TRUE]
         /\ th' = [pc |-> "del_list", op |-> "Cancel", path |-> ws.path, data |-> <<>>]
         /\ ls' = NoLs
         /\ hist' = [hist EXCEPT !.skipped = FALSE]
         /\ ret' = ret
    ELSE /\ w' = IF op = "Close" THEN [ws EXCEPT !.closed = TRUE]
                  ELSE [ws EXCEPT !.committed = TRUE]
         /\ Return(op, ws.path, NoErr)

\* what Close, Commit and Cancel do once writer.close has returned, ws
\* being the session as close left it
AfterClose(op, ws) ==
    IF op = "Cancel"
    THEN /\ w' = [ws EXCEPT !.cancelled = TRUE]
         /\ th' = [pc |-> "del_list", op |-> "Cancel", path |-> ws.path, data |-> <<>>]
         /\ ls' = NoLs
         /\ hist' = [hist EXCEPT !.skipped = FALSE]
         /\ ret' = ret
    ELSE IF ws.err # NoErr
    THEN /\ w' = ws
         /\ Return(op, ws.path, ws.err)
    ELSE /\ w' = IF op = "Close" THEN [ws EXCEPT !.closed = TRUE]
                  ELSE [ws EXCEPT !.committed = TRUE]
         /\ Return(op, ws.path, NoErr)

\* TermCall that stores an empty object when the session has no pipe
TermCallPutEmpty(op) ==
    /\ th.pc = "idle"
    /\ w.live
    /\ IF FlagError(op, w) # NoErr
       THEN /\ Return(op, w.path, FlagError(op, w))
            /\ UNCHANGED <<w, pipe, store>>
       ELSE IF w.wt
       THEN /\ pipe' = [pipe EXCEPT !.wclosed = TRUE]
            /\ w' = [w EXCEPT !.wt = FALSE]
            /\ th' = [pc |-> "close", op |-> op, path |-> w.path, data |-> <<>>]
            /\ UNCHANGED <<ls, ret, hist, store>>
       ELSE /\ AfterClose(op, w)
            /\ pipe' = pipe
            /\ store' = IF w.rd THEN store ELSE StorePut(store, getKey(w.path), <<>>)
    /\ UNCHANGED <<root, univ, bg, refreshCh>>

\* TermCall whose writer.close closes the pipe and does not wait for the
\* background task
TermCallNoJoin(op) ==
    /\ th.pc = "idle"
    /\ w.live
    /\ IF FlagError(op, w) # NoErr
       THEN /\ Return(op, w.path, FlagError(op, w))
            /\ UNCHANGED <<w, pipe>>
       ELSE /\ AfterClose(op, [w EXCEPT !.wt = FALSE, !.rd = FALSE])
            /\ pipe' = IF w.wt
                       THEN [pipe EXCEPT !.wclosed = TRUE, !.rclosed = TRUE]
                       ELSE pipe
    /\ UNCHANGED <<root, univ, store, bg, refreshCh>>

\* Close, Commit or Cancel up to the point where writer.close blocks in
\* <-w.exitch; with no pipe (w.wt == nil) close does nothing and the call
\* runs on
TermCall(op) ==
    /\ th.pc = "idle"
    /\ w.live
    /\ IF FlagError(op, w) # NoErr
       THEN /\ Return(op, w.path, FlagError(op, w))
            /\ UNCHANGED <<w, pipe>>
       ELSE IF w.wt
       THEN /\ pipe' = [pipe EXCEPT !.wclosed = TRUE]
            /\ w' = [w EXCEPT !.wt = FALSE]
            /\ th' = [pc |-> "close", op |-> op, path |-> w.path, data |-> <<>>]
            /\ UNCHANGED <<ls, ret, hist>>
       ELSE /\ AfterClose(op, w)
            /\ pipe' = pipe
    /\ UNCHANGED <<root, univ, store, bg, refreshCh>>

Close == TermCall("Close")

Commit == TermCall("Commit")

Cancel == CanStart /\ TermCall("Cancel")

\* CloseWait that does not wait for the send on exitch
CloseNoWait ==
    /\ th.pc = "close"
    /\ pipe' = [pipe EXCEPT !.rclosed = TRUE]
    /\ AfterClose(th.op, [w EXCEPT !.rd = FALSE, !.exitch = [n |-> 0, closed |-> TRUE]])
    /\ UNCHANGED <<root, univ, store, bg, refreshCh>>

\* writer.close from <-w.exitch on: the background task has sent; the read
\* end is closed, w.rd = nil, close(w.exitch); then the rest of the call
CloseWait ==
    /\ th.pc = "close"
    /\ w.exitch.n > 0
    /\ pipe' = [pipe EXCEPT !.rclosed = TRUE]
    /\ AfterClose(th.op, [w EXCEPT !.rd = FALSE, !.exitch = [n |-> 0, closed |-> TRUE]])
    /\ UNCHANGED <<root, univ, store, bg, refreshCh>>

(***************************************************************************)
(* Delete (also the cleanup of Cancel).                                    *)
(***************************************************************************)
\* the outcomes of bucket.Delete for a listed key: deleted, failed, or
\* code 612 because another actor has removed the key since it was listed
DeleteFaults == {"ok", "fail", "gone"}

\* driver.Delete is entered
Delete(path) ==
    /\ CanStart
    /\ th' = [pc |-> "del_list", op |-> "Delete", path |-> path, data |-> <<>>]
    /\ ls' = NoLs
    /\ hist' = [hist EXCEPT !.skipped = FALSE]
    /\ UNCHANGED <<root, univ, store, w, pipe, bg, refreshCh, ret>>

\* DeleteNext that returns after the items of the first page
DeleteNextFirstPage(items, marker) ==
    IF items # <<>> THEN "del_item" ELSE "return"

\* where Delete goes once the items of a page are done
DeleteNext(items, marker) ==
    IF items # <<>> THEN "del_item"
    ELSE IF marker = <<>> THEN "return"
    ELSE "del_list"

\* Delete returns err; calls: the list calls the loop has made
DeleteReturn(err, calls, h) ==
    /\ ret' = [Ret(th.op, th.path, err) EXCEPT !.calls = calls]
    /\ th' = Idle
    /\ ls' = NoLs
    /\ hist' = HistRet(h, th.op, err)

\* NextMarker that starts every list call at the first page
NextMarkerEmpty(l) == <<>>

\* the marker a loop passes to its next list call: the local variable the
\* previous call assigned, empty before the first call
NextMarker(l) == l.marker

\* DeletePage without the cnt check: a Delete that matched nothing returns nil
DeletePageNoCount(r) ==
    IF r.err # NoErr /\ r.err # ErrEOF
    THEN DeleteReturn(r.err, ls.calls \o r.calls, hist)
    ELSE IF DeleteNext(r.items, r.marker) = "return"
    THEN DeleteReturn(NoErr, ls.calls \o r.calls, hist)
    ELSE /\ ls' = [ls EXCEPT !.marker = r.marker, !.cnt = @ + Len(r.items),
                             !.items = r.items, !.calls = @ \o r.calls]
         /\ th' = [th EXCEPT !.pc = DeleteNext(r.items, r.marker)]
         /\ UNCHANGED <<ret, hist>>

\* Delete's loop after its list call has returned r: the error and cnt
\* checks, then on to the items of the page
DeletePage(r) ==
    IF r.err # NoErr /\ r.err # ErrEOF
    THEN DeleteReturn(r.err, ls.calls \o r.calls, hist)
    ELSE IF ls.cnt + Len(r.items) = 0
    THEN DeleteReturn(PathNotFoundError(th.path), ls.calls \o r.calls, hist)
    ELSE IF DeleteNext(r.items, r.marker) = "return"
    THEN DeleteReturn(NoErr, ls.calls \o r.calls, hist)
    ELSE /\ ls' = [ls EXCEPT !.marker = r.marker, !.cnt = @ + Len(r.items),
                             !.items = r.items, !.calls = @ \o r.calls]
         /\ th' = [th EXCEPT !.pc = DeleteNext(r.items, r.marker)]
         /\ UNCHANGED <<ret, hist>>

\* one round of Delete's loop up to the deletion of the page's items
DeleteList(faults) ==
    /\ th.pc = "del_list"
    /\ DeletePage(bucketlistWithRetry(store, getKey(th.path), <<>>, NextMarker(ls),
                                      listMax, faults))
    /\ UNCHANGED <<root, univ, store, w, pipe, bg, refreshCh>>

\* the body of Delete's inner loop for one item: bucket.Delete, then
\* refreshCache of the key; a key that is gone (code 612) is skipped.  With
\* the fault "gone" the step includes the removal of the key by the other
\* actor, which has happened since the key was listed.
DeleteItem(fault) ==
    /\ th.pc = "del_item"
    /\ LET key  == Head(ls.items).Key
           rest == Tail(ls.items)
           err  == IF fault = "fail" THEN ErrOther
                   ELSE IF fault = "gone" \/ ~Exists(store, key) THEN ErrRpc(codeNoKey)
                   ELSE NoErr
           nxt  == DeleteNext(rest, ls.marker)
           h2   == HistChange(hist, key, FALSE, <<>>, th.op = "Cancel")
           h3   == [HistChange(hist, key, FALSE, <<>>, FALSE) EXCEPT !.skipped = TRUE]
       IN  IF err # NoErr /\ ~isKeyNotExists(err)
           THEN /\ DeleteReturn(err, ls.calls, hist)
                /\ UNCHANGED <<store, refreshCh>>
           ELSE IF err # NoErr
           THEN /\ store' = StoreDel(store, key)
                /\ refreshCh' = refreshCh
                /\ IF nxt = "return"
                   THEN DeleteReturn(NoErr, ls.calls, h3)
                   ELSE /\ th' = [th EXCEPT !.pc = nxt]
                        /\ ls' = [ls EXCEPT !.items = rest]
                        /\ ret' = ret
                        /\ hist' = h3
           ELSE /\ store' = StoreDel(store, key)
                /\ IF Len(refreshCh) >= refreshChCap
                   THEN /\ th' = [th EXCEPT !.pc = "enq", !.data = key]
                        /\ ls' = [ls EXCEPT !.items = rest]
                        /\ hist' = h2
                        /\ UNCHANGED <<refreshCh, ret>>
                   ELSE /\ refreshCh' = Append(refreshCh, key)
                        /\ IF nxt = "return"
                           THEN DeleteReturn(NoErr, ls.calls, h2)
                           ELSE /\ th' = [th EXCEPT !.pc = nxt]
                                /\ ls' = [ls EXCEPT !.items = rest]
                                /\ ret' = ret
                                /\ hist' = h2
    /\ UNCHANGED <<root, univ, w, pipe, bg>>

\* EnqResume that sends on the full queue
EnqResumeNoWait ==
    /\ th.pc = "enq"
    /\ refreshCh' = Append(refreshCh, th.data)
    /\ IF th.op = "PutContent" \/ DeleteNext(ls.items, ls.marker) = "return"
       THEN Return(th.op, th.path, NoErr)
       ELSE /\ th' = [th EXCEPT !.pc = DeleteNext(ls.items, ls.marker), !.data = <<>>]
            /\ UNCHANGED <<ls, ret, hist>>
    /\ UNCHANGED <<root, univ, store, w, pipe, bg>>

\* refreshCache, blocked on the full queue, sends its key; the call that
\* made it runs on
EnqResume ==
    /\ th.pc = "enq"
    /\ Len(refreshCh) < refreshChCap
    /\ refreshCh' = Append(refreshCh, th.data)
    /\ IF th.op = "PutContent" \/ DeleteNext(ls.items, ls.marker) = "return"
       THEN Return(th.op, th.path, NoErr)
       ELSE /\ th' = [th EXCEPT !.pc = DeleteNext(ls.items, ls.marker), !.data = <<>>]
            /\ UNCHANGED <<ls, ret, hist>>
    /\ UNCHANGED <<root, univ, store, w, pipe, bg>>

(***************************************************************************)
(* List.                                                                   *)
(***************************************************************************)
Slash == <<"/">>

\* path of driver.List: opath with a "/" appended unless it is "/" or ends
\* with one
ListDir(opath) ==
    IF opath # Slash /\ opath[Len(opath)] # "/" THEN opath \o Slash ELSE opath

\* RootPrefix that is empty whatever the root directory
RootPrefixNone == <<>>

\* rootPrefix of driver.List
RootPrefix == IF getKey(<<>>) = <<>> THEN Slash ELSE <<>>

\* driver.List is entered
List(opath) ==
    /\ th.pc = "idle"
    /\ th' = [pc |-> "list", op |-> "List", path |-> opath, data |-> <<>>]
    /\ ls' = NoLs
    /\ UNCHANGED <<root, univ, store, w, pipe, bg, refreshCh, ret, hist>>

\* files = append(files, ...): the keys of a page's items as paths
ListFiles(files, items) ==
    files \o [i \in 1..Len(items) |->
                ReplaceFirst(items[i].Key, getKey(<<>>), RootPrefix)]

\* ListDirs that keeps the common prefixes of the latest page only
ListDirsLastPage(dirs, prefixes) ==
    [i \in 1..Len(prefixes) |->
       ReplaceFirst(TrimSuffix(prefixes[i], Slash), getKey(<<>>), RootPrefix)]

\* directories = append(directories, ...): a page's common prefixes, without
\* their trailing "/", as paths
ListDirs(dirs, prefixes) ==
    dirs \o [i \in 1..Len(prefixes) |->
               ReplaceFirst(TrimSuffix(prefixes[i], Slash), getKey(<<>>), RootPrefix)]

\* ListResult that answers PathNotFound for an empty listing of "/" too
ListResultNoRootCase(opath, files, dirs, calls) ==
    IF Len(files) = 0 /\ Len(dirs) = 0
    THEN [Ret("List", opath, PathNotFoundError(opath)) EXCEPT !.calls = calls]
    ELSE [Ret("List", opath, NoErr) EXCEPT !.names = files \o dirs, !.calls = calls]

\* what List returns after its loop
ListResult(opath, files, dirs, calls) ==
    IF opath # Slash /\ Len(files) = 0 /\ Len(dirs) = 0
    THEN [Ret("List", opath, PathNotFoundError(opath)) EXCEPT !.calls = calls]
    ELSE [Ret("List", opath, NoErr) EXCEPT !.names = files \o dirs, !.calls = calls]

\* ListPageDone that takes a failed list call for the end of the listing
ListPageDoneSwallow(r) ==
    /\ th' = Idle
    /\ ls' = NoLs
    /\ hist' = hist
    /\ ret' = ListResult(th.path, ListFiles(ls.files, r.items),
                         ListDirs(ls.dirs, r.prefixes), ls.calls \o r.calls)

\* List's loop after its list call has returned r: the page's items and
\* prefixes appended, and on the last page the result
ListPageDone(r) ==
    IF r.err # NoErr /\ r.err # ErrEOF
    THEN /\ ret' = [Ret("List", th.path, r.err) EXCEPT !.calls = ls.calls \o r.calls]
         /\ th' = Idle
         /\ ls' = NoLs
         /\ hist' = hist
    ELSE IF r.marker # <<>>
    THEN /\ ls' = [ls EXCEPT !.marker = r.marker,
                             !.files = ListFiles(@, r.items),
                             !.dirs = ListDirs(@, r.prefixes),
                             !.calls = @ \o r.calls]
         /\ UNCHANGED <<th, ret, hist>>
    ELSE /\ th' = Idle
         /\ ls' = NoLs
         /\ hist' = hist
         /\ ret' = ListResult(th.path, ListFiles(ls.files, r.items),
                              ListDirs(ls.dirs, r.prefixes), ls.calls \o r.calls)

\* one round of List's loop
ListStep(faults) ==
    /\ th.pc = "list"
    /\ ListPageDone(bucketlistWithRetry(store, getKey(ListDir(th.path)), Slash,
                                        NextMarker(ls), listMax, faults))
    /\ UNCHANGED <<root, univ, store, w, pipe, bg, refreshCh>>

(***************************************************************************)
(* The specifications.                                                     *)
(***************************************************************************)
PutContents == {<<>>, <<"y">>}

\* the path of the session specification
SessPaths == {<<"/", "a">>}

\* the paths of the listing specification: files /a/a and /a/b, and a file
\* /a/a/a that makes /a/a a directory as well
ListPaths == {<<"/", "a", "/", "a">>, <<"/", "a", "/", "a", "/", "a">>,
              <<"/", "a", "/", "b">>}

\* the directories callers list, delete and stat besides the paths
DirPaths == {Slash, <<"/", "a">>, <<"/", "b">>}

\* the paths of the reading specification: a file /a/b, and a file /a whose
\* key begins the key of /a/b
ReadPaths == {<<"/", "a">>, <<"/", "a", "/", "b">>}

\* the content PutContent stores in the listing specification
ListContents == {<<"y">>}

InitCommon ==
    /\ store = EmptyStore
    /\ w = NoWriter
    /\ pipe = NoPipe
    /\ bg = NoBg
    /\ th = Idle
    /\ ls = NoLs
    /\ refreshCh = <<>>
    /\ ret = NoRet
    /\ hist = NoHist

\* the state New returns: an empty queue, idle workers; the bucket starts
\* empty
Init ==
    /\ root = <<>>
    /\ univ = SessPaths
    /\ InitCommon

InitList ==
    /\ root = <<>>
    /\ univ = ListPaths
    /\ InitCommon

InitRead ==
    /\ root = <<>>
    /\ univ = ReadPaths
    /\ InitCommon

\* the root directories New is given: none, "/", "/b", "/b/", "b" and "/a"
RootDirs == {<<>>, <<"/">>, <<"/", "b">>, <<"/", "b", "/">>, <<"b">>, <<"/", "a">>}

InitRoot ==
    /\ root \in {New(r) : r \in RootDirs}
    /\ univ = ReadPaths
    /\ InitCommon

\* the paths of the specification of Delete's prefix: a file /a, a file /ab
\* beside it, and a file /a/b beneath it
PrefixPaths == {<<"/", "a">>, <<"/", "a", "b">>, <<"/", "a", "/", "b">>}

InitPrefix ==
    /\ root = <<>>
    /\ univ = PrefixPaths
    /\ InitCommon

InitQueue ==
    /\ root = <<>>
    /\ univ = QueuePaths
    /\ InitCommon

Workers == \E f \in RefreshFaults : refreshWorker(f)

Background ==
    \/ BgRead
    \/ BgPutOk
    \/ BgPutFail
    \/ BgRefresh

Session ==
    \/ \E p \in univ, a \in BOOLEAN, fs \in FaultSeqs : Writer(p, a, fs)
    \/ \E c \in Chunks : Write(c)
    \/ WriteReturn
    \/ Close
    \/ Commit
    \/ Cancel
    \/ CloseWait

DeleteLoop ==
    \/ \E fs \in FaultSeqs : DeleteList(fs)
    \/ \E f \in DeleteFaults : DeleteItem(f)

\* one session at a time on the path, with PutContent by other callers
Next ==
    \/ \E p \in univ, c \in PutContents : PutContent(p, c, "ok")
    \/ Session
    \/ Background
    \/ DeleteLoop
    \/ Workers

Spec == Init /\ [][Next]_vars

\* one session at a time and nothing else; the scheduler runs the background
\* task, the workers and every call that can go on, and every backend call
\* returns
NextSession ==
    \/ Session
    \/ Background
    \/ DeleteLoop
    \/ Workers

SpecSessionFair ==
    /\ Init /\ [][NextSession]_vars
    /\ WF_vars(Background) /\ WF_vars(WriteReturn) /\ WF_vars(CloseWait)
    /\ WF_vars(DeleteLoop) /\ WF_vars(Workers)

\* PutContent and Delete on keys of which one begins another, no other actor
\* removing keys
NextPrefix ==
    \/ \E p \in univ, c \in ListContents : PutContent(p, c, "ok")
    \/ \E p \in univ : Delete(p)
    \/ \E fs \in FaultSeqs : DeleteList(fs)
    \/ \E f \in {"ok", "fail"} : DeleteItem(f)
    \/ Workers

SpecPrefix == InitPrefix /\ [][NextPrefix]_vars

\* PutContent, Delete and List on several keys that share prefixes
NextList ==
    \/ \E p \in univ, c \in ListContents, f \in PutFaults : PutContent(p, c, f)
    \/ \E p \in univ \cup DirPaths : Delete(p)
    \/ DeleteLoop
    \/ \E p \in univ \cup DirPaths : List(p)
    \/ \E fs \in FaultSeqs : ListStep(fs)
    \/ Workers

SpecList == InitList /\ [][NextList]_vars

\* PutContent, Delete, Stat and GetContent on a key and a key under it
NextRead ==
    \/ \E p \in univ, c \in PutContents, f \in PutFaults : PutContent(p, c, f)
    \/ \E p \in univ \cup DirPaths, f \in GetFaults : GetContent(p, f)
    \/ \E p \in univ \cup DirPaths, fs \in FaultSeqs : Stat(p, fs)
    \/ \E p \in univ \cup DirPaths : Delete(p)
    \/ DeleteLoop
    \/ Workers

SpecRead == InitRead /\ [][NextRead]_vars

\* every call of the driver that reads or removes, the provider answering
\* its calls with code 612 and with other failures as well
NextErr ==
    \/ \E p \in univ, c \in ListContents : PutContent(p, c, "ok")
    \/ \E p \in univ \cup DirPaths, f \in GetFaultsAll : GetContent(p, f)
    \/ \E p \in univ \cup DirPaths, fs \in FaultSeqsAll : Stat(p, fs)
    \/ \E p \in univ \cup DirPaths : List(p)
    \/ \E fs \in FaultSeqsAll : ListStep(fs)
    \/ \E p \in univ \cup DirPaths : Delete(p)
    \/ \E fs \in FaultSeqsAll : DeleteList(fs)
    \/ \E f \in DeleteFaults : DeleteItem(f)
    \/ \E p \in univ, q \in univ, f \in MoveFaults : Move(p, q, f)
    \/ Workers

SpecErr == InitRead /\ [][NextErr]_vars

\* PutContent and List under each of the root directories
NextRoot ==
    \/ \E p \in univ, c \in ListContents : PutContent(p, c, "ok")
    \/ \E p \in univ \cup DirPaths : List(p)
    \/ \E fs \in FaultSeqs : ListStep(fs)
    \/ Workers

SpecRoot == InitRoot /\ [][NextRoot]_vars

\* PutContent, Delete and a fresh session on one key while the workers run,
\* the queue filling up to its capacity
NextQueue ==
    \/ \E p \in univ, c \in ListContents, f \in PutFaults : PutContent(p, c, f)
    \/ \E p \in univ : Delete(p)
    \/ DeleteLoop
    \/ EnqResume
    \/ \E p \in univ, fs \in FaultSeqs : Writer(p, FALSE, fs)
    \/ Write(<<"x">>)
    \/ WriteReturn
    \/ Commit
    \/ CloseWait
    \/ Background
    \/ Workers

SpecQueue == InitQueue /\ [][NextQueue]_vars

\* PutContent while the workers run, one request being followed through the
\* queue; the scheduler runs a worker that can receive, and every refresh
\* call returns
NextQueueFair ==
    \/ \E p \in univ, c \in ListContents, f \in PutFaults : PutContent(p, c, f)
    \/ EnqResume
    \/ Workers
    \/ \E i \in 1..refreshChCap : Track(i)

SpecQueueFair == InitQueue /\ [][NextQueueFair]_vars /\ WF_vars(Workers)

(***************************************************************************)
(* Properties of the write session (specification Spec).                   *)
(***************************************************************************)
Flags(ws) == <<ws.closed, ws.committed, ws.cancelled>>

Already == {"already closed", "already committed", "already cancelled"}

\* a step in which a Close, Commit or Cancel call returns to its caller
TermReturns ==
    /\ th'.pc = "idle"
    /\ \/ th.pc = "idle" /\ (Close \/ Commit \/ Cancel)
       \/ th.pc = "close" /\ CloseWait
       \/ th.pc \in {"del_list", "del_item"} /\ th.op = "Cancel" /\ DeleteLoop

\* a step of a Write, Close, Commit or Cancel call of the session
SessionCallStep ==
    \/ \E p \in Chunks : Write(p)
    \/ WriteReturn
    \/ Close
    \/ Commit
    \/ Cancel
    \/ CloseWait
    \/ th.op = "Cancel" /\ DeleteLoop

C3_WriteAfterTerminal ==
    [][(\E p \in Chunks : Write(p)) /\ (w.closed \/ w.committed \/ w.cancelled) =>
         /\ ret'.op = "Write" /\ ret'.n = 0
         /\ \/ ret'.err = ErrAlready("already closed") /\ w.closed
            \/ ret'.err = ErrAlready("already committed") /\ w.committed
            \/ ret'.err = ErrAlready("already cancelled") /\ w.cancelled
         /\ w' = w /\ bg' = bg /\ pipe' = pipe /\ store' = store
         /\ th'.pc = "idle"]_vars

\* a Write has been rejected on a cancelled session
C3_WriteAfterCancel ==
    /\ w.cancelled /\ ~w.closed
    /\ ret.op = "Write" /\ ret.err = ErrAlready("already cancelled") /\ ret.n = 0

\* C4 as stated: once a Close, Commit or Cancel of the session has returned
\* nil, no step of a later Write, Close, Commit or Cancel call of the
\* session changes the bucket
C4_NoBackendChangeAfterTerminal ==
    [][hist.termOk /\ SessionCallStep => store' = store]_vars

\* C5: a session opened with append on an existing object of content C
\* whose Commit returns nil, the object not having been changed by another
\* call meanwhile, leaves the object with C followed by the bytes of its
\* Writes in call order, of the size the session reports
C5_AppendCommit ==
    (/\ ret.op = "Commit" /\ ret.err = NoErr
     /\ hist.append /\ hist.hasBase /\ ~hist.dirty)
    => /\ Exists(store, getKey(w.path))
       /\ store[getKey(w.path)] = hist.expect
       /\ Len(store[getKey(w.path)]) = w.size

\* an appending session on a one-byte object has written a byte and
\* committed
C5_AppendedOneByte ==
    /\ ret.op = "Commit" /\ ret.err = NoErr
    /\ hist.append /\ hist.hasBase /\ ~hist.dirty
    /\ w.from = 1 /\ w.size = 2

\* C6: when Writer with append has returned, Stat having answered
\* PathNotFound, it has returned no error and the session that Writer
\* without append returns, with from = 0 and no pipe or background task;
\* the session keeps no record of append, so that every later call on it
\* has the same results and effects
C6_AppendMissingIsFresh ==
    (ret.op = "Writer" /\ th.pc = "idle" /\ hist.statNF)
    => /\ ret.err = NoErr
       /\ w.from = 0 /\ w.size = 0
       /\ \A fs \in FaultSeqs :
            /\ WriterResult(store, ret.path, FALSE, fs).err = NoErr
            /\ w = WriterResult(store, ret.path, FALSE, fs).w
       /\ pipe = NoPipe /\ bg = NoBg

\* a session has been opened with append on a missing object
C6_OpenedOnMissing ==
    /\ hist.statNF /\ hist.append
    /\ ret.op = "Writer" /\ ret.err = NoErr /\ th.pc = "idle"
    /\ w.live /\ w.from = 0

(***************************************************************************)
(* Properties of Stat and GetContent (specification SpecRead).             *)
(***************************************************************************)
\* the error is one of a failed backend call
Faulted(err) == err.kind \in {"rpc", "other"}

StatStep(p) == \E fs \in FaultSeqs : Stat(p, fs)

GetStep(p) == \E f \in GetFaults : GetContent(p, f)

\* some object's key begins with the key of the path
HasKeyUnder(st, path) == \E k \in DOMAIN st : HasPrefix(k, getKey(path))

\* C7 as stated: Stat and GetContent of a path that has never been written
\* return PathNotFound whenever the backend answers
C7_NeverWrittenNotFound ==
    [][\A p \in univ \cup DirPaths :
         (/\ p \notin hist.written
          /\ StatStep(p) \/ GetStep(p)
          /\ ret'.path = p /\ ~Faulted(ret'.err))
         => ret'.err = PathNotFoundError(p)]_vars

\* C7, amended: whenever the backend answers, GetContent of a path that has
\* never been written returns PathNotFound; Stat of it returns PathNotFound
\* iff no object's key begins with the key of the path, and otherwise
\* reports the path as a directory of size 0
C7_NeverWrittenStat ==
    [][\A p \in univ \cup DirPaths :
         p \notin hist.written =>
           /\ (GetStep(p) /\ ret'.op = "GetContent" /\ ret'.path = p
                 /\ ~Faulted(ret'.err))
              => ret'.err = PathNotFoundError(p)
           /\ (StatStep(p) /\ ret'.op = "Stat" /\ ret'.path = p
                 /\ ~Faulted(ret'.err))
              => IF HasKeyUnder(store, p)
                 THEN /\ ret'.err = NoErr
                      /\ ret'.fi = [Path |-> p, IsDir |-> TRUE, Size |-> 0]
                 ELSE ret'.err = PathNotFoundError(p)]_vars

\* Stat has reported a path that was never written as a directory
C7_UnwrittenDirectory ==
    /\ ret.op = "Stat" /\ ret.path \in univ /\ ret.path \notin hist.written
    /\ ret.err = NoErr /\ ret.fi.IsDir

\* C8: GetContent of a path whose object was last changed by a PutContent
\* that returned nil returns the bytes of that PutContent, the empty string
\* included
C8_PutGetRoundTrip ==
    [][\A p \in univ :
         (GetContent(p, "ok") /\ ret'.path = p
            /\ getKey(p) \in DOMAIN hist.lastPut)
         => ret'.err = NoErr /\ ret'.data = hist.lastPut[getKey(p)]]_vars

\* GetContent has returned the empty string PutContent stored
C8_GotEmpty ==
    /\ ret.op = "GetContent" /\ ret.err = NoErr /\ ret.data = <<>>
    /\ getKey(ret.path) \in DOMAIN hist.lastPut
    /\ hist.lastPut[getKey(ret.path)] = <<>>

(***************************************************************************)
(* Properties of List and Delete (specification SpecList).                 *)
(***************************************************************************)
\* the keys under a prefix that the delimiter does not roll up, and the
\* common prefixes of those it does
LeafKeys(st, prefix) ==
    {k \in DOMAIN st : HasPrefix(k, prefix) /\ ~IsRolledUp(k, prefix, Slash)}

CommonPrefixes(st, prefix) ==
    {EntryName(k, prefix, Slash) :
       k \in {k \in DOMAIN st : HasPrefix(k, prefix) /\ IsRolledUp(k, prefix, Slash)}}

\* the path of a key, the root directory being empty
PathOfKey(k) == Slash \o k

\* the listing of a directory: its leaf keys in key order, then its common
\* prefixes in key order without their "/", each once
ExpectedNames(leafs, dirs) ==
    [i \in 1..Len(leafs) |-> PathOfKey(leafs[i])]
    \o [i \in 1..Len(dirs) |-> PathOfKey(SubSeq(dirs[i], 1, Len(dirs[i]) - 1))]

ExpectedList(st, opath) ==
    ExpectedNames(SortStrs(LeafKeys(st, getKey(ListDir(opath)))),
                  SortStrs(CommonPrefixes(st, getKey(ListDir(opath)))))

\* C9: a List that returns nil returns, whatever the number of pages, one
\* name for every key and one for every common prefix of the listing, the
\* keys first and the common prefixes, as directories, after them
C9_ListComplete ==
    [][((\E fs \in FaultSeqs : ListStep(fs)) /\ th'.pc = "idle" /\ ret'.err = NoErr)
       => ret'.names = ExpectedList(store, th.path)]_vars

\* a List over two pages has returned two files and a directory
C9_ListedTwoPages ==
    /\ ret.op = "List" /\ ret.err = NoErr
    /\ \E i \in 1..Len(ret.calls) : ret.calls[i].marker # <<>>
    /\ Len(ret.names) = 3

\* the call failed with the code that bucketlistWithRetry retries
IsRetry(c) == c.err = ErrRpc(codeRetry)

\* the first call of a log has the empty marker; a call after one that
\* failed with the retried code repeats its marker; every other call has
\* the marker the call before it returned, which is not empty
ChainOk(L) ==
    \A i \in 1..Len(L) :
      IF i = 1 THEN L[i].marker = <<>>
      ELSE IF IsRetry(L[i - 1]) THEN L[i].marker = L[i - 1].marker
      ELSE /\ L[i - 1].err = NoErr
           /\ L[i - 1].out # <<>>
           /\ L[i].marker = L[i - 1].out

\* a marker is requested again only by the retry that follows a failure
NoRepeat(L) ==
    \A i, j \in 1..Len(L) :
      (i < j /\ L[i].marker = L[j].marker) => (j = i + 1 /\ IsRetry(L[i]))

\* C10: in List and Delete the first list call has the empty marker, each
\* later call has the marker the previous page returned, the loop goes on
\* only with a marker that is not empty and ends, when it ends with nil, on
\* the page that returned the empty marker; no page is requested twice but
\* for the retry and none is skipped
C10_MarkerChain ==
    /\ ChainOk(ls.calls) /\ NoRepeat(ls.calls)
    /\ ChainOk(ret.calls) /\ NoRepeat(ret.calls)
    /\ (th.pc \in {"list", "del_list"} /\ ls.calls # <<>>) =>
         /\ ls.calls[Len(ls.calls)].out # <<>>
         /\ ls.marker = ls.calls[Len(ls.calls)].out
    /\ (ret.op \in {"List", "Delete"} /\ ret.err = NoErr) =>
         /\ ret.calls # <<>>
         /\ ret.calls[Len(ret.calls)].out = <<>>
         /\ ret.calls[Len(ret.calls)].err = ErrEOF

\* a Delete has removed the objects of two pages
C10_DeletedTwoPages ==
    /\ ret.op = "Delete" /\ ret.err = NoErr
    /\ \E i \in 1..Len(ret.calls) : ret.calls[i].marker # <<>>

(***************************************************************************)
(* Properties of the paginated lister (specification SpecList).            *)
(***************************************************************************)
\* a step of the loop of List or of Delete that makes the list call of a page
PageStep == \E fs \in FaultSeqs : ListStep(fs) \/ DeleteList(fs)

\* the list calls such a step adds to the log of its loop
NewCalls ==
    IF th'.pc = "idle"
    THEN SubSeq(ret'.calls, Len(ls.calls) + 1, Len(ret'.calls))
    ELSE SubSeq(ls'.calls, Len(ls.calls) + 1, Len(ls'.calls))

\* the arguments List and Delete pass for the page they are at
PageArgs(c) ==
    /\ c.prefix = IF th.pc = "list" THEN getKey(ListDir(th.path)) ELSE getKey(th.path)
    /\ c.delimiter = IF th.pc = "list" THEN Slash ELSE <<>>
    /\ c.marker = ls.marker
    /\ c.limit = listMax

\* the outcome of the last call of a page is what the loop acts on: an
\* error other than io.EOF ends the driver call with that error, and a page
\* with a marker is followed from that marker
PageOutcome(c) ==
    IF c.err # NoErr /\ c.err # ErrEOF
    THEN th'.pc = "idle" /\ ret'.err = c.err
    ELSE th'.pc \in {"list", "del_list"} => ls'.marker = c.out /\ c.out # <<>>

\* C11: for each page the lister calls the backend list once or twice, each
\* time with the same prefix, delimiter, marker and limit; it calls twice
\* exactly when the first call failed with code 599, and the outcome of the
\* last call is the outcome of the page
C11_RetryOncePerPage ==
    [][PageStep =>
         /\ Len(NewCalls) \in 1..listAttempts
         /\ \A i \in 1..Len(NewCalls) : PageArgs(NewCalls[i])
         /\ (Len(NewCalls) = listAttempts) = IsRetry(NewCalls[1])
         /\ PageOutcome(NewCalls[Len(NewCalls)])]_vars

\* a List or Delete has returned nil after a call that failed with code 599
\* was repeated with the same marker and succeeded
C11_RetriedPage ==
    /\ ret.op \in {"List", "Delete"} /\ ret.err = NoErr
    /\ \E i \in 1..(Len(ret.calls) - 1) :
         /\ IsRetry(ret.calls[i])
         /\ ret.calls[i + 1].marker = ret.calls[i].marker
         /\ ret.calls[i + 1].err \in {NoErr, ErrEOF}

\* the last two calls of a log are the two attempts of one page and both
\* failed with code 599
TwoFailedAttempts(L) ==
    /\ Len(L) >= listAttempts
    /\ IsRetry(L[Len(L)]) /\ IsRetry(L[Len(L) - 1])
    /\ L[Len(L)].marker = L[Len(L) - 1].marker

\* C12 as stated: no call of List, Stat or Delete returns a code-599 error
C12_TransientNeverSurfaced ==
    ret.op \in {"List", "Stat", "Delete"} => ret.err # ErrRpc(codeRetry)

\* C12, amended: List and Delete return a code-599 error only when both
\* attempts of the list call of one page failed with code 599, and Stat
\* returns one exactly when both attempts of its list call did; a code-599
\* failure that is followed by any other outcome of the second attempt is
\* not returned
C12_SurfacedAfterTwoFailures ==
    /\ (ret.op \in {"List", "Delete"} /\ ret.err = ErrRpc(codeRetry))
         => TwoFailedAttempts(ret.calls)
    /\ \A p \in univ \cup DirPaths, fs \in FaultSeqs :
         (StatResult(store, p, fs).err = ErrRpc(codeRetry))
           = (\A i \in 1..listAttempts : fs[i] = "retry")

\* a Delete has returned the code-599 error of its second attempt
C12_DeleteSurfaced ==
    /\ ret.op = "Delete" /\ ret.err = ErrRpc(codeRetry)
    /\ TwoFailedAttempts(ret.calls)

\* both attempts of the list call fail with code 599
AllRetry == [i \in 1..listAttempts |-> "retry"]

\* C13: when the list call of a page, the first or a later one, has failed
\* with code 599 on every attempt, List returns that error and no names and
\* Delete returns that error, whatever the pages before have yielded
C13_ExhaustedRetrySurfaces ==
    [][(ListStep(AllRetry) \/ DeleteList(AllRetry)) =>
         /\ th'.pc = "idle"
         /\ ret'.op = th.op /\ ret'.path = th.path
         /\ ret'.err = ErrRpc(codeRetry)
         /\ ret'.names = <<>>
         /\ TwoFailedAttempts(ret'.calls)]_vars

\* a List has failed on a later page, after a first page that had names
C13_ListFailedOnLaterPage ==
    /\ ret.op = "List" /\ ret.err = ErrRpc(codeRetry) /\ ret.names = <<>>
    /\ ret.calls[Len(ret.calls)].marker # <<>>

(***************************************************************************)
(* Properties of Delete (specification SpecList).                          *)
(***************************************************************************)
\* a step in which a Delete call of the facade returns
DeleteReturns == th.op = "Delete" /\ DeleteLoop /\ th'.pc = "idle"

\* C14: when Delete(P) returns nil, no other caller having written meanwhile,
\* the bucket holds no object whose key begins with the key of P, over
\* however many pages the keys were listed
C14_DeleteRemovesAll ==
    [][(DeleteReturns /\ ret'.err = NoErr) => ~HasKeyUnder(store', th.path)]_vars

\* a Delete of a directory whose keys span two pages has returned nil and
\* has left nothing under it
C14_DeletedDirectory ==
    /\ ret.op = "Delete" /\ ret.err = NoErr /\ ret.path = <<"/", "a">>
    /\ Len(ret.calls) >= 2 /\ ~IsRetry(ret.calls[1])
    /\ ~HasKeyUnder(store, ret.path)

\* C15: a Delete whose list call is answered returns PathNotFound exactly
\* when no object's key begins with the key of the path; it returns it from
\* the first round of its loop, before any bucket.Delete, and it leaves the
\* bucket and the refresh queue as they are
C15_NotFoundIffNothing ==
    [][DeleteReturns =>
         /\ (ret'.err = PathNotFoundError(th.path))
              = (/\ ls.calls = <<>>
                 /\ ~HasKeyUnder(store, th.path)
                 /\ ~Faulted(ret'.err))
         /\ ret'.err.kind = "PathNotFound" =>
              /\ ret'.err = PathNotFoundError(th.path)
              /\ ls.cnt = 0
              /\ store' = store
              /\ refreshCh' = refreshCh]_vars

\* a Delete of a path with no object under it has returned PathNotFound
\* while the bucket holds other objects
C15_DeletedNothing ==
    /\ ret.op = "Delete" /\ ret.err = PathNotFoundError(ret.path)
    /\ ~HasKeyUnder(store, ret.path)
    /\ DOMAIN store # {}

\* C16: when bucket.Delete of a listed key fails with code 612, the key
\* having been removed by another actor, Delete goes on with the next key or
\* page, or returns nil when that key was the last, and enqueues nothing for
\* it; when bucket.Delete fails otherwise, Delete returns that error at
\* once and deletes nothing more
C16_GoneKeySkipped ==
    [][/\ DeleteItem("gone") =>
            /\ th'.pc = IF DeleteNext(Tail(ls.items), ls.marker) = "return"
                        THEN "idle"
                        ELSE DeleteNext(Tail(ls.items), ls.marker)
            /\ th'.pc = "idle" => ret'.op = th.op /\ ret'.err = NoErr
            /\ th'.pc # "idle" =>
                 ls'.items = Tail(ls.items) /\ ls'.marker = ls.marker
            /\ refreshCh' = refreshCh
       /\ DeleteItem("fail") =>
            /\ th'.pc = "idle"
            /\ ret'.op = th.op /\ ret'.err = ErrOther
            /\ store' = store /\ refreshCh' = refreshCh]_vars

\* a Delete over two pages has skipped a key that was gone and has returned
\* nil
C16_SkippedAndSucceeded ==
    /\ ret.op = "Delete" /\ ret.err = NoErr /\ hist.skipped
    /\ \E i \in 1..Len(ret.calls) : ret.calls[i].marker # <<>>
    /\ th.pc = "idle"

(***************************************************************************)
(* Properties of Cancel and of the background task (specification Spec).   *)
(***************************************************************************)
\* a step in which a Cancel call that passed the flag checks returns
CancelReturns ==
    TermReturns /\ ret'.op = "Cancel" /\ FlagErrorCancel(w) = NoErr

\* C17 as stated: a Cancel accepted on an open session returns nil, whether
\* or not its cleanup delete has failed
C17_CancelReportsNoError ==
    [][CancelReturns => ret'.err = NoErr]_vars

\* the background task of the session is not running: it was never
\* started, or it has sent on exitch and exited
BgOver == bg.pc \in {"none", "done"}

\* C18: the cleanup delete of an accepted Cancel runs only once the
\* background task of the session is over, and from the moment cancelled is
\* set the task is over for good, so that no upload of the session lands
\* after the delete; a Cancel that returns nil leaves no object under the
\* session's key
C18_DeleteAfterJoin ==
    /\ []((th.op = "Cancel" /\ th.pc \in {"del_list", "del_item", "enq"}) => BgOver)
    /\ [](w.cancelled => BgOver)
    /\ [][(CancelReturns /\ ret'.err = NoErr) => ~Exists(store', getKey(w.path))]_vars

\* a Cancel has returned nil on a session whose upload had been stored, and
\* the object is gone
C18_CancelledAfterUpload ==
    /\ ret.op = "Cancel" /\ ret.err = NoErr /\ th.pc = "idle"
    /\ w.cancelled /\ w.size > 0 /\ w.err = NoErr /\ bg.pc = "done"
    /\ ~Exists(store, getKey(w.path))

\* C19: no Close, Commit or Cancel returns while the background task of the
\* session runs: the task is over in every step in which one of them
\* returns, and stays so while the call is the last one returned
C19_JoinedBeforeReturn ==
    /\ [][TermReturns => bg'.pc \in {"none", "done"}]_vars
    /\ []((th.pc = "idle" /\ ret.op \in {"Close", "Commit", "Cancel"}) => BgOver)

\* a Close has returned nil after the background task has stored the
\* session's bytes and exited
C19_ClosedAfterUpload ==
    /\ ret.op = "Close" /\ ret.err = NoErr /\ th.pc = "idle"
    /\ w.closed /\ w.size > 0 /\ bg.pc = "done"
    /\ Exists(store, getKey(w.path))

\* the background task has exited with an error of PutParts in w.err
BgFailed == bg.pc = "done" /\ w.err # NoErr

\* C20: once the background task has failed, its error stays in the session;
\* a Write that passes the flag checks returns it with n = 0 and offers no
\* bytes, and a Close or Commit that passes the flag checks returns it and
\* sets no flag
C20_BgErrorSurfaces ==
    /\ [][(BgFailed /\ bg'.pc = "done") => w'.err = w.err]_vars
    /\ [][(BgFailed /\ FlagError3(w) = NoErr /\ \E p \in Chunks : Write(p)) =>
            /\ th'.pc = "idle"
            /\ ret'.op = "Write" /\ ret'.err = w.err /\ ret'.n = 0
            /\ w' = w /\ pipe' = pipe /\ bg' = bg]_vars
    /\ [][(/\ BgFailed /\ TermReturns
           /\ ret'.op \in {"Close", "Commit"}
           /\ FlagError(ret'.op, w) = NoErr) =>
            /\ ret'.err = w.err
            /\ Flags(w') = Flags(w)]_vars

\* a Commit has returned the error of the failed upload and has not set
\* committed
C20_CommitGotBgError ==
    /\ ret.op = "Commit" /\ ret.err = ErrOther /\ th.pc = "idle"
    /\ BgFailed /\ w.err = ret.err
    /\ ~w.committed /\ ~w.closed

(***************************************************************************)
(* Properties of the refresh queue.                                        *)
(***************************************************************************)
\* C21 as stated: whenever a Commit has returned nil, the session's key has
\* been enqueued for refresh, whatever the number of Writes, none included
C21_CommitEnqueues ==
    (ret.op = "Commit" /\ ret.err = NoErr /\ th.pc = "idle") => hist.enq

\* C21, amended: when a Commit has returned nil on a session on which a
\* Write had been accepted, so that the background task was started, the
\* task has enqueued the session's key before the Commit returned; on a
\* session with no accepted Write the Commit returns nil with nothing
\* uploaded and nothing enqueued
C21_CommitAfterWriteEnqueues ==
    (ret.op = "Commit" /\ ret.err = NoErr /\ th.pc = "idle")
    => /\ hist.enq = (bg.pc # "none")
       /\ hist.enq => bg.pc = "done" /\ w.err = NoErr

\* a Commit has returned nil on an appending session that has written, and
\* the key has been enqueued
C21_CommittedAndEnqueued ==
    /\ ret.op = "Commit" /\ ret.err = NoErr /\ th.pc = "idle"
    /\ hist.enq /\ hist.append /\ hist.acc > 0

\* the queue is full
QueueFull == Len(refreshCh) = refreshChCap

\* C22: the queue never holds more than 100 requests; a request is added
\* only below capacity and one at a time; a producer (PutContent, Delete,
\* the background upload of a session) waits in its enqueue only if the
\* queue was full, can go on as soon as the queue is below capacity, and
\* while the queue is full stays where it is until a worker has dequeued
C22_QueueBounded ==
    /\ [](Len(refreshCh) <= refreshChCap)
    /\ []((th.pc = "enq" /\ ~QueueFull) => ENABLED EnqResume)
    /\ []((bg.pc = "refresh" /\ ~QueueFull) => ENABLED BgRefresh)
    /\ [][/\ Len(refreshCh') > Len(refreshCh)
             => ~QueueFull /\ Len(refreshCh') = Len(refreshCh) + 1
          /\ (th.pc # "enq" /\ th'.pc = "enq")
             => QueueFull /\ refreshCh' = refreshCh
          /\ (th.pc = "enq" /\ QueueFull) => (th' = th /\ ret' = ret)
          /\ (bg.pc = "refresh" /\ QueueFull) => bg' = bg]_vars

\* the queue is full, the background upload of a session waits to enqueue
\* its key and Commit waits for the upload
C22_UploadWaitsOnFullQueue ==
    QueueFull /\ bg.pc = "refresh" /\ th.op = "Commit" /\ th.pc # "idle"

\* a request is followed and waits in the queue
Followed == hist.mark > 0

\* the followed request has been received by a worker and passed to the
\* refresh call
Refreshed == hist.mark = 0 /\ hist.tries = 1

\* C23: when the scheduler runs the workers and every refresh call returns,
\* every request in the queue is eventually received by a worker and passed
\* to the refresh call, whether the refresh calls before it succeed or fail
C23_EveryRequestRefreshed == Followed ~> Refreshed

\* the followed request is the last of a full queue, behind which a
\* PutContent waits to enqueue
C23_FollowedLastOfFullQueue ==
    hist.mark = refreshChCap /\ th.pc = "enq" /\ th.op = "PutContent"

\* C24: a request is passed to the refresh call at most once: a request
\* that waits has had no call, the worker that receives it takes it out of
\* the queue, and after its one call, failed or not, it is not in the
\* queue again
C24_OneAttempt ==
    /\ hist.mark <= Len(refreshCh)
    /\ hist.tries <= 1
    /\ hist.mark > 0 => hist.tries = 0 /\ ~hist.failed
    /\ hist.failed => hist.tries = 1

\* the one refresh call of the followed request has failed and the request
\* is gone from the queue, which is empty
C24_FailedAndGone ==
    hist.failed /\ hist.tries = 1 /\ hist.mark = 0 /\ refreshCh = <<>>

\* C25: the outcome of a refresh call reaches no producer: the step of a
\* worker, whether its refresh call succeeds or fails, changes nothing but
\* the queue, so the bucket, the session, the running call and the last
\* result are as they were; the enqueue of the background task leaves
\* w.err nil, and a PutContent whose upload succeeded returns nil
C25_RefreshOutcomeUnseen ==
    /\ [][Len(refreshCh') < Len(refreshCh)
          => UNCHANGED <<store, w, pipe, bg, th, ls, ret>>]_vars
    /\ []((bg.pc = "done" /\ hist.enq) => w.err = NoErr)
    /\ [](ret.op = "PutContent" => ret.err = NoErr)

\* the key of the session has been enqueued and a worker has made its
\* refresh call, with either outcome, before the Commit returned nil
C25_CommittedAfterRefresh ==
    /\ ret.op = "Commit" /\ ret.err = NoErr /\ th.pc = "idle"
    /\ hist.enq /\ refreshCh = <<>> /\ hist.acc = MaxSize

(* Properties of List, Stat, Move and Reader on missing paths. *)
\* List returns
ListReturns == (\E fs \in FaultSeqs : ListStep(fs)) /\ th'.pc = "idle"

\* C26: a List whose list calls have all answered returns PathNotFound if
\* and only if its path is not "/" and the listing has no key and no common
\* prefix; List of "/" on an empty bucket returns the empty list and nil
C26_ListNotFoundIffEmpty ==
    [][ListReturns =>
         LET nothing == ExpectedList(store, th.path) = <<>> IN
         /\ ret'.err = PathNotFoundError(th.path) => (th.path # Slash /\ nothing)
         /\ (th.path # Slash /\ nothing /\ ~Faulted(ret'.err))
            => ret'.err = PathNotFoundError(th.path)
         /\ (th.path = Slash /\ nothing /\ ~Faulted(ret'.err))
            => (ret'.err = NoErr /\ ret'.names = <<>>)]_vars

\* List of "/" has returned the empty list and nil on a bucket that is empty
\* again after a Delete
C26_ListedEmptyRoot ==
    /\ ret.op = "List" /\ ret.path = Slash /\ ret.err = NoErr /\ ret.names = <<>>
    /\ store = EmptyStore /\ hist.written # {} /\ th.pc = "idle"

\* the key of the root directory, which begins every key of the driver
RootKey == getKey(<<>>)

\* the keys a List of opath is about: the keys of the listing in key order,
\* then its common prefixes in key order without their "/"
ListedKeys(st, opath) ==
    LET leafs == SortStrs(LeafKeys(st, getKey(ListDir(opath))))
        dirs  == SortStrs(CommonPrefixes(st, getKey(ListDir(opath))))
    IN  leafs \o [i \in 1..Len(dirs) |-> TrimSuffix(dirs[i], Slash)]

\* C27: every path a List returns begins with "/"; with the root directory
\* "" or "/" it is the backend key behind a "/", with another root directory
\* it is the backend key without the key of the root directory; either way
\* the driver maps the path back to the key
C27_ListedPathsRooted ==
    [][(ListReturns /\ ret'.err = NoErr) =>
         LET keys == ListedKeys(store, th.path) IN
         /\ Len(ret'.names) = Len(keys)
         /\ \A i \in 1..Len(keys) :
              LET n == ret'.names[i] IN
              /\ n # <<>> /\ n[1] = "/"
              /\ getKey(n) = keys[i]
              /\ IF RootKey = <<>>
                 THEN root = <<>> /\ n = Slash \o keys[i]
                 ELSE HasPrefix(keys[i], RootKey) /\ n = Drop(keys[i], Len(RootKey))]_vars

\* with the root directory "/b" a List has returned a file and a directory
C27_ListedUnderRoot ==
    /\ root = <<"/", "b">> /\ ret.op = "List" /\ ret.err = NoErr
    /\ ret.names = << <<"/", "a">>, <<"/", "a">> >>

\* what an operation returns for the error e of its backend call, if every
\* code 612 is mapped to PathNotFound of the path and every other error is
\* returned as it is
Translated(path, e, err) ==
    /\ isKeyNotExists(e) => err = PathNotFoundError(path)
    /\ (Faulted(e) /\ ~isKeyNotExists(e)) => err = e

\* C28 as stated: whenever a backend call of Stat, List, Delete, Move or
\* Reader fails with code 612, or the download answers 404, the operation
\* returns PathNotFound, and a failure with another code is returned as it
\* is; the deletion of a single key inside Delete is the one exception
C28_NoKeyIsNotFound ==
    [][/\ \A p \in univ \cup DirPaths, fs \in FaultSeqsAll :
            Stat(p, fs) =>
              Translated(p, bucketlistWithRetry(store, getKey(p), <<>>, <<>>, 1, fs).err,
                         ret'.err)
       /\ \A fs \in FaultSeqsAll :
            (ListStep(fs) /\ th'.pc = "idle") =>
              Translated(th.path,
                         bucketlistWithRetry(store, getKey(ListDir(th.path)), Slash,
                                             NextMarker(ls), listMax, fs).err,
                         ret'.err)
       /\ \A fs \in FaultSeqsAll :
            (DeleteList(fs) /\ th'.pc = "idle") =>
              Translated(th.path,
                         bucketlistWithRetry(store, getKey(th.path), <<>>,
                                             NextMarker(ls), listMax, fs).err,
                         ret'.err)
       /\ \A p \in univ, q \in univ, f \in MoveFaults :
            Move(p, q, f) => Translated(p, MoveErr(store, p, f), ret'.err)
       /\ \A p \in univ \cup DirPaths, f \in GetFaultsAll :
            GetContent(p, f) =>
              /\ f = "fail" => ret'.err = ErrOther
              /\ f = "status" => Faulted(ret'.err)
              /\ (f = "ok" /\ ~Exists(store, getKey(p)))
                 => ret'.err = PathNotFoundError(p)]_vars

(* Properties of the parts and of the size of a session. *)
DirectPart == [type |-> "direct", Key |-> <<>>, From |-> 0, To |-> 0]

\* C29: while the background task of a session runs its PutParts, the parts
\* are the direct part alone when from = 0, and the copy part of the range
\* [0, from) of the session's own key followed by the direct part when
\* from > 0; every copy part has to > from, which addCopyFile accepts
C29_PartsOfBackground ==
    bg.pc = "put" =>
      /\ w.from >= 0
      /\ w.from = 0 => BgParts(w) = <<DirectPart>>
      /\ w.from > 0 =>
           BgParts(w) = <<[type |-> "copy", Key |-> getKey(w.path),
                           From |-> 0, To |-> w.from], DirectPart>>
      /\ \A i \in 1..Len(BgParts(w)) :
           BgParts(w)[i].type = "copy" =>
             (BgParts(w)[i].To > BgParts(w)[i].From /\ CopyPartValid(BgParts(w)[i]))

\* the background task of a session opened at the end of an object of
\* MaxSize - 1 bytes runs its PutParts with a copy part
C29_AppendingUpload ==
    bg.pc = "put" /\ w.from = MaxSize - 1 /\ w.from > 0 /\ Len(BgParts(w)) = 2

\* a Writer call returns a new session
WriterStep == ret'.op = "Writer" /\ w' = newFileWriter(w'.path, w'.from)

\* C30: in every state of a session Size() is the offset the session
\* started at, 0 unless it was opened with append, plus the bytes its
\* Writes have returned as written, which is the length of the content the
\* session is to leave; within a session Size() changes only when a Write
\* returns nil, by the count that Write returns, so it never decreases and
\* no failed Write, Close, Commit or Cancel changes it
C30_SizeIsOffsetPlusWritten ==
    /\ [](w.live => /\ Size(w) = w.from + hist.acc
                    /\ Size(w) = Len(hist.expect)
                    /\ ~hist.append => w.from = 0)
    /\ [][(w.live /\ ~WriterStep /\ Size(w') # Size(w))
          => /\ th.pc = "write" /\ ret'.op = "Write" /\ ret'.err = NoErr
             /\ ret'.n > 0 /\ Size(w') = Size(w) + ret'.n]_vars

\* a session opened at offset 1 has written a byte and has been cancelled,
\* and Size() is 2
C30_SizeAfterCancel ==
    /\ w.live /\ w.cancelled /\ w.from = 1 /\ hist.acc = 1 /\ Size(w) = 2
    /\ th.pc = "idle" /\ ret.op = "Cancel"

(* Properties of the background task and of sessions never written. *)
\* C31: a session starts at most one background task, which issues one
\* PutParts: a task is started only by a session that has started none, a
\* Write after close has shut the first one down starts no second; the
\* exit channel is sent on once, while it is empty and open, and closed
\* once
C31_OneBackgroundTask ==
    /\ [](hist.started <= 1 /\ (hist.started = 0) = (bg.pc = "none"))
    /\ [][/\ (bg'.pc = "put" /\ bg.pc # "put")
             => (bg.pc = "none" /\ hist.started = 0 /\ hist'.started = 1)
          /\ w'.exitch.n > w.exitch.n
             => (w.exitch.n = 0 /\ ~w.exitch.closed /\ bg.pc # "done" /\ bg'.pc = "done")
          /\ (th.pc = "close" /\ th'.pc # "close")
             => (~w.exitch.closed /\ w'.exitch.closed)]_vars

\* after a Close that returned the error of the upload, with the pipe and
\* the task shut down and no flag set, a Write has been refused and the
\* session has still started one task
C31_WriteAfterShutdown ==
    /\ ret.op = "Write" /\ ret.err # NoErr /\ th.pc = "idle"
    /\ w.live /\ ~w.closed /\ ~w.committed /\ ~w.cancelled
    /\ ~w.rd /\ w.exitch.closed /\ bg.pc = "done" /\ hist.started = 1

\* C32 as stated: every Write, Close, Commit and Cancel that has been
\* entered eventually returns, also when PutParts ends with an error before
\* the stream has ended
C32_CallsReturn == (th.pc # "idle") ~> (th.pc = "idle")

\* key is the key of path or lies beneath it as a directory
AtOrBeneath(key, path) ==
    key = getKey(path) \/ HasPrefix(key, getKey(path) \o Slash)

\* C33 as stated: a Delete of P, no other actor removing keys meanwhile,
\* removes no object but those whose key is P's key or begins with P's key
\* followed by "/", and changes no object that stays
C33_DeleteOnlyBeneath ==
    [][th.op = "Delete" =>
         /\ \A k \in DOMAIN store \ DOMAIN store' : AtOrBeneath(k, th.path)
         /\ \A k \in DOMAIN store \cap DOMAIN store' : store'[k] = store[k]
         /\ DOMAIN store' \subseteq DOMAIN store]_vars

\* Close or Commit is called on a session that has started no task
UnwrittenTermStep ==
    /\ w.live /\ bg.pc = "none" /\ th.pc = "idle"
    /\ ret' # ret \/ w' # w
    /\ ret'.op \in {"Close", "Commit"} /\ th'.op # "Cancel"

\* C34: on a session on which Write was never called, a Close or a Commit
\* that no flag refuses returns nil in the step of its call, with no task
\* started, no pipe, nothing stored and nothing enqueued; as long as such
\* a session is not cancelled and no other caller changes its key, the
\* object of the key is what it was when the session was opened, absent if
\* it was absent
C34_UnwrittenSessionLeavesObject ==
    /\ [][UnwrittenTermStep =>
            /\ th'.pc = "idle"
            /\ ret'.err = FlagError(ret'.op, w)
            /\ UNCHANGED <<store, bg, pipe, refreshCh>>
            /\ hist'.enq = hist.enq /\ hist'.started = 0]_vars
    /\ [][(w.live /\ bg.pc = "none" /\ bg'.pc = "none" /\ store' # store)
          => (th.op = "Cancel" \/ (th.pc = "idle" /\ ret'.op = "PutContent"))]_vars
    /\ []((w.live /\ bg.pc = "none" /\ ~hist.dirty /\ ~w.cancelled) =>
            /\ Exists(store, getKey(w.path)) = hist.hasBase
            /\ (hist.append /\ hist.hasBase) => store[getKey(w.path)] = hist.expect
            /\ ~hist.enq /\ pipe = NoPipe /\ ~w.rd /\ ~w.wt)

\* a Commit has returned nil on a session opened without append on an
\* existing object and never written: nothing was uploaded and the object
\* is still there
C34_CommittedUnwritten ==
    /\ ret.op = "Commit" /\ ret.err = NoErr /\ th.pc = "idle"
    /\ w.live /\ w.committed /\ bg.pc = "none" /\ hist.started = 0
    /\ ~hist.append /\ hist.hasBase /\ ~hist.dirty
    /\ Exists(store, getKey(w.path)) /\ store[getKey(w.path)] # <<>>

====
